---- MODULE Spec2Model ----
(***************************************************************************)
(* Model of the snake game in src/src/main.rs: the grid primitives         *)
(* (GridElem, Direction), Snake::update, and the State event handlers      *)
(* (update, draw, key_down_event) as driven by the event loop that main    *)
(* starts.  Coordinates are records [x, y]; the body is a sequence whose   *)
(* first element is the front of the LinkedList (the neck) and whose last  *)
(* element is the back (the tail).  Instants are milliseconds since        *)
(* State::new.                                                             *)
(*                                                                         *)
(* event::run polls the pending events (key_down_event for each key),      *)
(* calls update, calls draw, and goes round again while the context is     *)
(* continuing; pc is the position in that loop.  The clock advances by     *)
(* FrameTime per iteration.  Rand32 is seeded from system entropy, so the  *)
(* outcome of a draw is any value of its range; rng counts the values      *)
(* drawn from the generator.                                               *)
(***************************************************************************)
EXTENDS Integers, Sequences, FiniteSets, TLC

VARIABLES snake, food, rng, last_update_time, now, continuing, stdout, pc

vars == <<snake, food, rng, last_update_time, now, continuing, stdout, pc>>

(* ---- constants of main.rs ---- *)
GRID_SIZE_0 == 30
GRID_SIZE_1 == 20
UPDATES_PER_SECOND == 8
\* mutant: the interval in whole seconds, which the cast truncates to zero
TIME_PER_UPDATE_in_seconds == 1 \div UPDATES_PER_SECOND

TIME_PER_UPDATE == 1000 \div UPDATES_PER_SECOND

(* ---- bounds of the model ---- *)
\* milliseconds between two iterations of the event loop
FrameTime == 63
\* number of loop iterations explored
MaxFrames == 34

Directions == {"Up", "Down", "Left", "Right"}
\* "Other" stands for every key code that is not an arrow key
KeyCodes == {"Up", "Down", "Left", "Right", "Other"}
None == "None"

(* ---- GridElem ---- *)
\* mutant: the truncating remainder, whose sign follows the dividend
rem_truncating(a, n) == IF a < 0 THEN 0 - ((0 - a) % n) ELSE a % n

rem_euclid(a, n) == a % n

GridElem(px, py) == [x |-> px, y |-> py]

\* GridElem::random: the set of values two rand_range calls can produce
random(max_x, max_y) == {GridElem(px, py) : px \in 0..(max_x - 1), py \in 0..(max_y - 1)}

\* mutant: the Right arm wraps at the grid's height
move_dir_right_wraps_height(self, direction) ==
  CASE direction = "Up"    -> GridElem(self.x, rem_euclid(self.y - 1, GRID_SIZE_1))
    [] direction = "Down"  -> GridElem(self.x, rem_euclid(self.y + 1, GRID_SIZE_1))
    [] direction = "Left"  -> GridElem(rem_euclid(self.x - 1, GRID_SIZE_0), self.y)
    [] direction = "Right" -> GridElem(rem_euclid(self.x + 1, GRID_SIZE_1), self.y)

move_dir(self, direction) ==
  CASE direction = "Up"    -> GridElem(self.x, rem_euclid(self.y - 1, GRID_SIZE_1))
    [] direction = "Down"  -> GridElem(self.x, rem_euclid(self.y + 1, GRID_SIZE_1))
    [] direction = "Left"  -> GridElem(rem_euclid(self.x - 1, GRID_SIZE_0), self.y)
    [] direction = "Right" -> GridElem(rem_euclid(self.x + 1, GRID_SIZE_0), self.y)

same_position(elem1, elem2) == elem1 = elem2

(* ---- Direction ---- *)
\* mutant: the default arm maps every other key to Up
from_keycode_default_up(keycode) ==
  CASE keycode = "Up"    -> "Up"
    [] keycode = "Down"  -> "Down"
    [] keycode = "Left"  -> "Left"
    [] keycode = "Right" -> "Right"
    [] OTHER             -> "Up"

from_keycode(keycode) ==
  CASE keycode = "Up"    -> "Up"
    [] keycode = "Down"  -> "Down"
    [] keycode = "Left"  -> "Left"
    [] keycode = "Right" -> "Right"
    [] OTHER             -> None

\* mutant: the Left arm returns Left
inverse_left_unturned(self) ==
  CASE self = "Up"    -> "Down"
    [] self = "Down"  -> "Up"
    [] self = "Left"  -> "Left"
    [] self = "Right" -> "Left"

inverse(self) ==
  CASE self = "Up"    -> "Down"
    [] self = "Down"  -> "Up"
    [] self = "Left"  -> "Right"
    [] self = "Right" -> "Left"

(* ---- Snake ---- *)
Snake_new(pos) ==
  [head |-> pos,
   body |-> <<GridElem(pos.x - 1, pos.y)>>,
   ate |-> FALSE,
   self_ate |-> FALSE,
   direction |-> "Right"]

\* mutant: the old head is pushed at the back of the list
push_front_at_back(list, elem) == Append(list, elem)

push_front(list, elem) == <<elem>> \o list

pop_back(list) == IF Len(list) = 0 THEN list ELSE SubSeq(list, 1, Len(list) - 1)

\* the scan of lines 141-147 over the list it is given
\* mutant: the flag is overwritten on every element, so the last one decides
scan_self_ate_last_only(new_head, list) ==
  Len(list) > 0 /\ same_position(new_head, list[Len(list)])

scan_self_ate(new_head, list) == \E i \in DOMAIN list : same_position(new_head, list[i])

\* mutant: the body is scanned after the tail has been removed
Snake_update_scan_after_pop(self, f) ==
  LET new_head == move_dir(self.head, self.direction)
      ate      == same_position(new_head, f.elem)
      pushed   == push_front(self.body, self.head)
      body     == IF ~ate THEN pop_back(pushed) ELSE pushed
      self_ate == scan_self_ate(new_head, body)
  IN [head |-> new_head,
      body |-> body,
      ate |-> ate,
      self_ate |-> self_ate,
      direction |-> self.direction]

\* mutant: the tail is removed whether or not the snake ate
Snake_update_always_pop(self, f) ==
  LET new_head == move_dir(self.head, self.direction)
      ate      == same_position(new_head, f.elem)
      pushed   == push_front(self.body, self.head)
      self_ate == scan_self_ate(new_head, pushed)
      body     == pop_back(pushed)
  IN [head |-> new_head,
      body |-> body,
      ate |-> ate,
      self_ate |-> self_ate,
      direction |-> self.direction]

\* mutant: the scan compares the old head, not the new one, with the list
Snake_update_scan_old_head(self, f) ==
  LET new_head == move_dir(self.head, self.direction)
      ate      == same_position(new_head, f.elem)
      pushed   == push_front(self.body, self.head)
      self_ate == scan_self_ate(self.head, pushed)
      body     == IF ~ate THEN pop_back(pushed) ELSE pushed
  IN [head |-> new_head,
      body |-> body,
      ate |-> ate,
      self_ate |-> self_ate,
      direction |-> self.direction]

\* mutant: the tail is removed when the snake ate, and kept when it did not
Snake_update_pop_when_ate(self, f) ==
  LET new_head == move_dir(self.head, self.direction)
      ate      == same_position(new_head, f.elem)
      pushed   == push_front(self.body, self.head)
      self_ate == scan_self_ate(new_head, pushed)
      body     == IF ate THEN pop_back(pushed) ELSE pushed
  IN [head |-> new_head,
      body |-> body,
      ate |-> ate,
      self_ate |-> self_ate,
      direction |-> self.direction]

Snake_update(self, f) ==
  LET new_head == move_dir(self.head, self.direction)
      ate      == same_position(new_head, f.elem)
      pushed   == push_front(self.body, self.head)
      self_ate == scan_self_ate(new_head, pushed)
      body     == IF ~ate THEN pop_back(pushed) ELSE pushed
  IN [head |-> new_head,
      body |-> body,
      ate |-> ate,
      self_ate |-> self_ate,
      direction |-> self.direction]

(* ---- State ---- *)
Init ==
  /\ snake = Snake_new(GridElem(15, 10))
  /\ food = [elem |-> GridElem(5, 5)]
  /\ rng = 0
  /\ last_update_time = 0
  /\ now = 0
  /\ continuing = TRUE
  /\ stdout = <<>>
  /\ pc = "poll"

\* the throttle test of State::update
throttled(t_now, t_last) == (t_now - t_last) < TIME_PER_UPDATE

\* mutant: the food is relocated when the snake ate itself
food_eaten_self(s) == s.self_ate

\* the test that guards the relocation of the food
food_eaten(s) == s.ate

\* mutant: the game ends when the snake ate the food
game_over_on_food(s) == s.ate

\* the test that guards the "GAME OVER!" branch
game_over(s) == s.self_ate

\* State::update, called once per loop iteration after the events are polled;
\* event::quit clears the context's continuing flag
\* mutant: the new food position is drawn among the cells free of the snake
update_food_off_snake ==
  /\ pc = "poll"
  /\ pc' = "draw"
  /\ UNCHANGED now
  /\ IF throttled(now, last_update_time)
     THEN UNCHANGED <<snake, food, rng, last_update_time, continuing, stdout>>
     ELSE LET s == Snake_update(snake, food) IN
          /\ snake' = s
          /\ IF food_eaten(s)
             THEN /\ \E e \in random(GRID_SIZE_0, GRID_SIZE_1) :
                       /\ e # s.head
                       /\ \A i \in DOMAIN s.body : e # s.body[i]
                       /\ food' = [elem |-> e]
                  /\ rng' = rng + 2
             ELSE UNCHANGED <<food, rng>>
          /\ IF game_over(s)
             THEN /\ stdout' = Append(stdout, "GAME OVER!")
                  /\ continuing' = FALSE
             ELSE UNCHANGED <<stdout, continuing>>
          /\ last_update_time' = now

update ==
  /\ pc = "poll"
  /\ pc' = "draw"
  /\ UNCHANGED now
  /\ IF throttled(now, last_update_time)
     THEN UNCHANGED <<snake, food, rng, last_update_time, continuing, stdout>>
     ELSE LET s == Snake_update(snake, food) IN
          /\ snake' = s
          /\ IF food_eaten(s)
             THEN /\ \E e \in random(GRID_SIZE_0, GRID_SIZE_1) : food' = [elem |-> e]
                  /\ rng' = rng + 2
             ELSE UNCHANGED <<food, rng>>
          /\ IF game_over(s)
             THEN /\ stdout' = Append(stdout, "GAME OVER!")
                  /\ continuing' = FALSE
             ELSE UNCHANGED <<stdout, continuing>>
          /\ last_update_time' = now

\* State::draw reads the snake and the food and changes neither
draw ==
  /\ pc = "draw"
  /\ pc' = "loop"
  /\ UNCHANGED <<snake, food, rng, last_update_time, now, continuing, stdout>>

\* State::key_down_event, for each key event polled before update
key_down_event(keycode) ==
  /\ pc = "poll"
  /\ LET direction == from_keycode(keycode) IN
     IF direction # None /\ inverse(direction) # snake.direction
     THEN snake' = [snake EXCEPT !.direction = direction]
     ELSE UNCHANGED snake
  /\ UNCHANGED <<food, rng, last_update_time, now, continuing, stdout, pc>>

\* mutant: the loop goes round without testing the flag
run_continue_unconditionally ==
  /\ pc = "loop"
  /\ now + FrameTime <= MaxFrames * FrameTime
  /\ now' = now + FrameTime
  /\ pc' = "poll"
  /\ UNCHANGED <<snake, food, rng, last_update_time, continuing, stdout>>

\* event::run: the loop goes round while the context is continuing
run_continue ==
  /\ pc = "loop"
  /\ continuing
  /\ now + FrameTime <= MaxFrames * FrameTime
  /\ now' = now + FrameTime
  /\ pc' = "poll"
  /\ UNCHANGED <<snake, food, rng, last_update_time, continuing, stdout>>

\* event::run returns once event::quit has cleared the flag
run_exit ==
  /\ pc = "loop"
  /\ ~continuing
  /\ pc' = "exited"
  /\ UNCHANGED <<snake, food, rng, last_update_time, now, continuing, stdout>>

Next ==
  \/ update
  \/ draw
  \/ \E keycode \in KeyCodes : key_down_event(keycode)
  \/ run_continue
  \/ run_exit

Spec == Init /\ [][Next]_vars

(***************************************************************************)
(* Properties                                                              *)
(***************************************************************************)

\* a step of State::update in which the tick fires / is throttled, and a
\* step of State::key_down_event, recognised from the states alone
TickStep == pc = "poll" /\ pc' = "draw" /\ now - last_update_time >= 125
ThrottledStep == pc = "poll" /\ pc' = "draw" /\ now - last_update_time < 125
KeyStep == pc = "poll" /\ pc' = "poll"

Opposite(d) == IF d = "Up" THEN "Down" ELSE IF d = "Down" THEN "Up"
               ELSE IF d = "Left" THEN "Right" ELSE "Left"

\* one cell further in direction d on the 30 x 20 torus
Shifted(h, d) ==
  LET nx == h.x + (IF d = "Right" THEN 1 ELSE IF d = "Left" THEN 0 - 1 ELSE 0)
      ny == h.y + (IF d = "Down" THEN 1 ELSE IF d = "Up" THEN 0 - 1 ELSE 0)
  IN [x |-> IF nx = 30 THEN 0 ELSE IF nx < 0 THEN 29 ELSE nx,
      y |-> IF ny = 20 THEN 0 ELSE IF ny < 0 THEN 19 ELSE ny]

InGrid(e) == e.x \in 0..29 /\ e.y \in 0..19

Cells(list) == {list[i] : i \in DOMAIN list}

\* C1: no tick moves the head onto the cell of the body segment that was
\* immediately behind the head before that tick, whatever key events came
\* between the ticks.
C1_NoReversalIntoNeck == [][TickStep => snake'.head # snake.body[1]]_vars

\* C2: a key event whose key maps to direction d leaves the direction
\* unchanged when d is the inverse of the current direction, and otherwise
\* sets the direction to d.
C2_DirectionRule ==
  [][\A k \in {"Up", "Down", "Left", "Right"} :
       key_down_event(k) =>
         snake'.direction = (IF k = Opposite(snake.direction)
                             THEN snake.direction ELSE k)]_vars

\* C2 witness: a key event has turned the snake before the first tick.
C2_Witness ==
  snake.direction = "Up" /\ snake.head = [x |-> 15, y |-> 10] /\ last_update_time = 0

\* C3: after Snake.update, self_ate holds exactly when the new head equals
\* the head or a body segment of before the update, the tail that this
\* update removes included.
C3_SelfCollisionIff ==
  [][TickStep =>
       (snake'.self_ate <=> snake'.head \in ({snake.head} \cup Cells(snake.body)))]_vars

\* C3 witness: a tick has just set self_ate, the new head being on the cell
\* of the tail that the same tick removed.
C3_Witness ==
  /\ pc = "draw" /\ last_update_time = now /\ now > 0
  /\ snake.self_ate /\ ~snake.ate
  /\ snake.head \notin Cells(snake.body)

\* C4: a tick takes the game from Running to Terminated exactly when its
\* Snake.update set self_ate; no other step changes the running flag.
C4_TerminateIffSelfAte ==
  [][/\ TickStep => (continuing /\ (~continuing' <=> snake'.self_ate))
     /\ (ThrottledStep \/ KeyStep) => (continuing' = continuing)]_vars

\* C4 witness: the tick that set self_ate has stopped the game.
C4_Witness ==
  pc = "draw" /\ ~continuing /\ snake.self_ate /\ stdout = <<"GAME OVER!">>

\* C5: once Terminated, the game stays Terminated and no later step moves
\* the snake, relocates the food or changes the snake's length.
C5_TerminatedAbsorbing ==
  [][~continuing =>
       /\ ~continuing'
       /\ snake' = snake
       /\ food' = food
       /\ Len(snake'.body) = Len(snake.body)]_vars

\* C5 witness: the loop has taken steps after the game terminated.
C5_Witness == pc = "exited" /\ ~continuing

\* C6: across Snake.update, ate holds exactly when the new head is on the
\* food, and the total length grows by one when ate and is unchanged
\* otherwise.
C6_Growth ==
  [][TickStep =>
       /\ snake'.ate <=> (snake'.head = food.elem)
       /\ (1 + Len(snake'.body)) =
            (1 + Len(snake.body)) + (IF snake'.head = food.elem THEN 1 ELSE 0)]_vars

\* C6 witness: the snake has just eaten and has grown to three cells.
C6_Witness ==
  pc = "draw" /\ last_update_time = now /\ snake.ate /\ Len(snake.body) = 2

\* C7: a frame call made less than 125 ms after last_update_time changes
\* nothing: snake, food, generator and last_update_time are as before.
C7_ThrottledNoOp ==
  [][ThrottledStep =>
       /\ snake' = snake
       /\ food' = food
       /\ rng' = rng
       /\ last_update_time' = last_update_time
       /\ continuing' = continuing]_vars

\* C7 witness: a frame call within one interval of a tick has returned.
C7_Witness ==
  /\ pc = "draw" /\ last_update_time > 0
  /\ now - last_update_time > 0 /\ now - last_update_time < 125

\* C8: the head, every body segment and the food are inside the grid,
\* x in [0, 30) and y in [0, 20).
C8_InBounds ==
  /\ InGrid(snake.head)
  /\ \A i \in DOMAIN snake.body : InGrid(snake.body[i])
  /\ InGrid(food.elem)

\* C8 witness: a tick has moved the head over the top edge to the bottom row.
C8_Witness ==
  snake.head.y = 19 /\ snake.body[1].y = 0 /\ last_update_time = now

\* C9: a tick that fires sets the head one cell further in the direction
\* and the body to the old head followed by the old body, less the tail
\* when ate is false; from the initial state it gives head (16,10), body
\* [(15,10)], ate and self_ate false.
C9_TickMovesSnake ==
  [][TickStep =>
       /\ snake'.head = Shifted(snake.head, snake.direction)
       /\ LET full == <<snake.head>> \o snake.body
          IN snake'.body = (IF snake'.ate THEN full
                            ELSE SubSeq(full, 1, Len(full) - 1))
       /\ ( /\ snake.head = [x |-> 15, y |-> 10]
            /\ snake.body = <<[x |-> 14, y |-> 10]>>
            /\ snake.direction = "Right"
            /\ food.elem = [x |-> 5, y |-> 5] )
          => ( /\ snake'.head = [x |-> 16, y |-> 10]
               /\ snake'.body = <<[x |-> 15, y |-> 10]>>
               /\ ~snake'.ate
               /\ ~snake'.self_ate )]_vars

\* C9 witness: the first tick from the initial state has fired.
C9_Witness ==
  /\ snake.head = [x |-> 16, y |-> 10]
  /\ snake.body = <<[x |-> 15, y |-> 10]>>
  /\ ~snake.ate /\ ~snake.self_ate
  /\ last_update_time = now /\ now > 0

\* C10: the food is relocated exactly on eating ticks: a tick whose new head
\* is on the food draws a fresh position inside the grid, and every other
\* tick, throttled frame call and key event leaves the food where it was.
C10_FoodRelocation ==
  [][/\ (TickStep /\ snake'.head = food.elem) =>
          (snake'.ate /\ rng' # rng /\ InGrid(food'.elem))
     /\ ~(TickStep /\ snake'.head = food.elem) =>
          (food' = food /\ rng' = rng)]_vars

\* C10 witness: an eating tick has moved the food away from (5,5).
C10_Witness ==
  /\ pc = "draw" /\ last_update_time = now /\ snake.ate
  /\ snake.head = [x |-> 5, y |-> 5] /\ food.elem # [x |-> 5, y |-> 5]
  /\ Len(snake.body) = 2

\* C14: a key event changes at most the direction: head, body, ate,
\* self_ate, food and last_update_time are as before, and a key that is not
\* an arrow key changes nothing at all.
C14_KeyEventFrame ==
  [][/\ KeyStep =>
          /\ snake'.head = snake.head
          /\ snake'.body = snake.body
          /\ snake'.ate = snake.ate
          /\ snake'.self_ate = snake.self_ate
          /\ food' = food
          /\ last_update_time' = last_update_time
     /\ key_down_event("Other") => vars' = vars]_vars

\* C14 witness: after the first tick a key event has turned the snake Down
\* and left the rest of the state as the tick made it.
C14_Witness ==
  /\ pc = "poll" /\ snake.direction = "Down"
  /\ snake.head = [x |-> 16, y |-> 10] /\ snake.body = <<[x |-> 15, y |-> 10]>>
  /\ food.elem = [x |-> 5, y |-> 5] /\ last_update_time > 0

\* C15: the relocation excludes no cell: in a state where an eating tick is
\* due (looked at on the steps that leave the tick still due), each cell that
\* the snake will occupy after that tick (the new head, the old head and the
\* old body) is a position the tick can give the food; and food lying on the
\* snake stays where it is until a tick moves the head onto it.
C15_NoExclusion ==
  [][/\ (pc = "poll" /\ pc' = "poll" /\ now - last_update_time >= 125
           /\ Shifted(snake.head, snake.direction) = food.elem) =>
          \A cell \in {food.elem, snake.head} \cup Cells(snake.body) :
             ENABLED (update /\ food'.elem = cell)
     /\ (food.elem \in ({snake.head} \cup Cells(snake.body))
           /\ ~(TickStep /\ snake'.head = food.elem)) =>
          food' = food]_vars

\* C15 witness: an eating tick has put the food on a cell of the snake.
C15_Witness ==
  /\ pc = "draw" /\ last_update_time = now /\ snake.ate
  /\ food.elem \in ({snake.head} \cup Cells(snake.body))

\* two cells next to each other on the torus: one unit apart on one axis,
\* equal on the other
Adjacent(a, b) ==
  \/ (a.x = b.x /\ ((a.y - b.y + 20) % 20) \in {1, 19})
  \/ (a.y = b.y /\ ((a.x - b.x + 30) % 30) \in {1, 29})

\* C17: while the game is Running the cells of the snake are pairwise
\* distinct: the head is on no body segment and no two body segments are
\* equal; so the total length is at most 600.
C17_RunningCellsDistinct ==
  continuing =>
    /\ \A i \in DOMAIN snake.body : snake.body[i] # snake.head
    /\ \A i, j \in DOMAIN snake.body : (i # j) => snake.body[i] # snake.body[j]
    /\ 1 + Len(snake.body) <= 600

\* C17 witness: a Running snake of three cells that a tick has just moved
\* without eating.
C17_Witness ==
  /\ continuing /\ pc = "draw" /\ last_update_time = now
  /\ Len(snake.body) = 2 /\ ~snake.ate

\* C18: the snake is a connected chain on the torus: the head and the front
\* body segment, and every two consecutive body segments, are one unit
\* apart on exactly one axis modulo the grid size.
C18_ConnectedChain ==
  /\ Len(snake.body) > 0 => Adjacent(snake.head, snake.body[1])
  /\ \A i \in DOMAIN snake.body :
       (i + 1 \in DOMAIN snake.body) => Adjacent(snake.body[i], snake.body[i + 1])

\* C18 witness: a snake of three cells with a bend in it.
C18_Witness ==
  /\ Len(snake.body) = 2
  /\ snake.head.x # snake.body[2].x /\ snake.head.y # snake.body[2].y

\* C19: the body always has a segment and the total length never decreases:
\* across every step it stays or grows by one, and it grows only on a tick
\* whose new head is on the food.
C19_LengthMonotone ==
  [][/\ Len(snake.body) >= 1
     /\ Len(snake'.body) >= 1
     /\ Len(snake'.body) >= Len(snake.body)
     /\ (Len(snake'.body) # Len(snake.body)) =>
          /\ Len(snake'.body) = Len(snake.body) + 1
          /\ TickStep
          /\ snake'.head = food.elem]_vars

\* C19 witness: the snake has eaten twice and has four cells.
C19_Witness ==
  pc = "draw" /\ snake.ate /\ Len(snake.body) = 3

(***************************************************************************)
(* GridElem::move_dir and Direction::inverse on every cell and direction   *)
(***************************************************************************)

\* a snake of two cells anywhere on the grid, heading any way, its neck
\* behind its head
InitGrid ==
  /\ snake \in {[head |-> c,
                 body |-> <<Shifted(c, Opposite(d))>>,
                 ate |-> FALSE,
                 self_ate |-> FALSE,
                 direction |-> d] : c \in random(GRID_SIZE_0, GRID_SIZE_1),
                                    d \in Directions}
  /\ food = [elem |-> GridElem(5, 5)]
  /\ rng = 0
  /\ last_update_time = 0
  /\ now = 0
  /\ continuing = TRUE
  /\ stdout = <<>>
  /\ pc = "call"

\* self.head.move_dir(self.direction), as Snake::update calls it
call_move_dir ==
  /\ pc = "call"
  /\ pc' = "move_dir"
  /\ snake' = [snake EXCEPT !.head = move_dir(snake.head, snake.direction)]
  /\ UNCHANGED <<food, rng, last_update_time, now, continuing, stdout>>

\* move_dir applied four times: Up, Down, Left, Right
call_round_trip ==
  /\ pc = "call"
  /\ pc' = "round_trip"
  /\ snake' = [snake EXCEPT !.head =
       move_dir(move_dir(move_dir(move_dir(snake.head, "Up"), "Down"), "Left"), "Right")]
  /\ UNCHANGED <<food, rng, last_update_time, now, continuing, stdout>>

\* direction.inverse(), as State::key_down_event calls it
call_inverse ==
  /\ pc = "call"
  /\ pc' = "inverse"
  /\ snake' = [snake EXCEPT !.direction = inverse(snake.direction)]
  /\ UNCHANGED <<food, rng, last_update_time, now, continuing, stdout>>

\* inverse applied twice
call_inverse_twice ==
  /\ pc = "call"
  /\ pc' = "inverse_twice"
  /\ snake' = [snake EXCEPT !.direction = inverse(inverse(snake.direction))]
  /\ UNCHANGED <<food, rng, last_update_time, now, continuing, stdout>>

NextGrid ==
  \/ call_move_dir
  \/ call_round_trip
  \/ call_inverse
  \/ call_inverse_twice

SpecGrid == InitGrid /\ [][NextGrid]_vars

\* C11: move_dir changes exactly one axis by one unit under the mathematical
\* modulo of the grid size (30 wide, 20 high) and leaves the other axis
\* alone; (0,0) moved Up has y = 19 and (29,0) moved Right has x = 0.
C11_MoveWraps ==
  [][(pc = "call" /\ pc' = "move_dir") =>
       LET c == snake.head
           d == snake.direction
           r == snake'.head
       IN /\ InGrid(c) /\ InGrid(r)
          /\ d = "Up"    => (r.x = c.x /\ (r.y + 1) % 20 = c.y)
          /\ d = "Down"  => (r.x = c.x /\ (c.y + 1) % 20 = r.y)
          /\ d = "Left"  => (r.y = c.y /\ (r.x + 1) % 30 = c.x)
          /\ d = "Right" => (r.y = c.y /\ (c.x + 1) % 30 = r.x)
          /\ (c = [x |-> 0, y |-> 0] /\ d = "Up") => r.y = 19
          /\ (c = [x |-> 29, y |-> 0] /\ d = "Right") => r.x = 0]_vars

\* C11 witness: (0,0) has been moved Up, over the edge, to (0,19).
C11_Witness ==
  pc = "move_dir" /\ snake.direction = "Up" /\ snake.head = [x |-> 0, y |-> 19]

\* C12: moving a cell Up, Down, Left and Right in turn gives the cell back,
\* on the edges of the grid too.
C12_RoundTrip ==
  [][(pc = "call" /\ pc' = "round_trip") => snake'.head = snake.head]_vars

\* C12 witness: the round trip has been made from the corner (0,0), where
\* the moves Up and Left wrap.
C12_Witness ==
  pc = "round_trip" /\ snake.head = [x |-> 0, y |-> 0]

\* C13: inverse(inverse(d)) = d, and inverse(d) is one of the four
\* directions and is not d.
C13_InverseInvolution ==
  [][/\ (pc = "call" /\ pc' = "inverse_twice") => snake'.direction = snake.direction
     /\ (pc = "call" /\ pc' = "inverse") =>
          /\ snake'.direction \in {"Up", "Down", "Left", "Right"}
          /\ snake'.direction # snake.direction]_vars

\* C13 witness: inverse has been applied twice to Right.
C13_Witness ==
  pc = "inverse_twice" /\ snake.direction = "Right" /\ snake.head = [x |-> 15, y |-> 10]

(***************************************************************************)
(* Snake::update on a snake that is a head alone                           *)
(***************************************************************************)

\* a head with an empty body on any cell, heading any way, with the food on
\* any cell
InitLen1 ==
  /\ snake \in {[head |-> c,
                 body |-> <<>>,
                 ate |-> FALSE,
                 self_ate |-> FALSE,
                 direction |-> d] : c \in random(GRID_SIZE_0, GRID_SIZE_1),
                                    d \in Directions}
  /\ food \in {[elem |-> e] : e \in random(GRID_SIZE_0, GRID_SIZE_1)}
  /\ rng = 0
  /\ last_update_time = 0
  /\ now = 0
  /\ continuing = TRUE
  /\ stdout = <<>>
  /\ pc = "call"

\* self.snake.update(&self.food), as State::update calls it
call_Snake_update ==
  /\ pc = "call"
  /\ pc' = "Snake_update"
  /\ snake' = Snake_update(snake, food)
  /\ UNCHANGED <<food, rng, last_update_time, now, continuing, stdout>>

NextLen1 == call_Snake_update

SpecLen1 == InitLen1 /\ [][NextLen1]_vars

\* C16: Snake.update on a snake of total length 1 never sets self_ate,
\* wherever the head and the food are and whichever way the snake heads.
C16_Len1NeverCollides ==
  [][(pc = "call" /\ pc' = "Snake_update" /\ Len(snake.body) = 0) =>
       ~snake'.self_ate]_vars

\* C16 witness: a lone head at (29,19) has moved over the corner onto the
\* food at (0,19) and has grown to two cells.
C16_Witness ==
  /\ pc = "Snake_update" /\ snake.ate
  /\ snake.head = [x |-> 0, y |-> 19] /\ snake.body = <<[x |-> 29, y |-> 19]>>

(***************************************************************************)
(* The game when no key is ever pressed                                    *)
(***************************************************************************)

\* number of loop iterations explored when no key is pressed
MaxFramesNoKeys == 64

\* event::run going round, followed over MaxFramesNoKeys iterations
run_continue_no_keys ==
  /\ pc = "loop"
  /\ continuing
  /\ now + FrameTime <= MaxFramesNoKeys * FrameTime
  /\ now' = now + FrameTime
  /\ pc' = "poll"
  /\ UNCHANGED <<snake, food, rng, last_update_time, continuing, stdout>>

\* the loop with no key event to poll
NextNoKeys ==
  \/ update
  \/ draw
  \/ run_continue_no_keys

SpecNoKeys == Init /\ [][NextNoKeys]_vars

\* the ticks fired so far: one every second iteration of the loop
TicksNoKeys == last_update_time \div (2 * FrameTime)

\* C20: with no key event the game never terminates: the snake keeps heading
\* Right along row 10, wrapping from x = 29 to x = 0, with two cells, the
\* food stays at (5,5), ate and self_ate stay false, and the head is back at
\* (15,10) every 30 ticks.
C20_NoKeysRunsForever ==
  /\ continuing
  /\ pc # "exited"
  /\ stdout = <<>>
  /\ snake.direction = "Right"
  /\ snake.head.y = 10
  /\ snake.head.x = (15 + TicksNoKeys) % 30
  /\ snake.body = <<[x |-> (14 + TicksNoKeys) % 30, y |-> 10]>>
  /\ ~snake.ate
  /\ ~snake.self_ate
  /\ food.elem = [x |-> 5, y |-> 5]
  /\ (TicksNoKeys % 30 = 0) => snake.head = [x |-> 15, y |-> 10]

\* C20 witness: after 30 ticks, wrap included, the head is back at (15,10).
C20_Witness ==
  /\ last_update_time = 60 * FrameTime
  /\ snake.head = [x |-> 15, y |-> 10]
  /\ snake.body = <<[x |-> 14, y |-> 10]>>
====
